---------------------------- MODULE Spec2Model ----------------------------
(***************************************************************************)
(* Little Lemon: the SQLite menu store (database.js) and the Home screen   *)
(* that bootstraps it from the remote menu and queries it (Home.js).       *)
(*                                                                         *)
(* Text values are sequences of one-character strings, so that LOWER,      *)
(* trim, LIKE and the BINARY collation of ORDER BY are computed.           *)
(***************************************************************************)
EXTENDS Integers, Sequences, FiniteSets, TLC

VARIABLES
    table,        \* rows of menuitems as the one connection `db` sees them
    sqliteSeq,    \* sqlite_sequence entry of menuitems (AUTOINCREMENT)
    save,         \* the saveMenuItems call in flight, statement by statement
    preTable,     \* history: the table when saveMenuItems was called
    saveCalls,    \* history: number of saveMenuItems calls so far
    lastRead,     \* history: the last read another caller got back
    pc,           \* where initializeApp of the mounted Home stands
    menuItems,    \* initializeApp: let menuItems
    apiData,      \* initializeApp: const apiData
    loading, error, isInitialized, sections,
    selectedCategory, searchQuery, debouncedSearchQuery,   \* useState of Home
    timers,       \* pending setTimeout callbacks of the debounce effect
    inflight,     \* filterByCategory / searchMenuItems calls not yet settled
    got,          \* history: what getMenuItems returned to initializeApp
    fetchCalls,   \* history: number of fetchMenuFromAPI calls
    getCalls,     \* history: number of getMenuItems calls of initializeApp
    issued,       \* history: number of queries issued
    lastIssued,   \* history: the query issued last
    shown,        \* history: the query whose rows setSections showed last
    searched,     \* history: texts passed to searchMenuItems
    settled,      \* history: texts that were current when their timer fired
    superseded,   \* history: texts replaced while their timer was pending
    events,       \* history: number of user inputs
    schema,       \* the menuitems table exists in the database
    creates,      \* history: the createTable calls made
    failedOps,    \* history: operations that failed
    kv,           \* AsyncStorage: the value stored under each key
    observed,     \* App: value of useAsyncStorageListener('isLoggedIn')
    isLoading,    \* App: isLoading of useAsyncStorageListener
    polls,        \* getItem results of loadValue calls not yet delivered
    lastPolled,   \* history: what the last completed read returned
    entry,        \* Onboarding: the form (firstName, email)
    form,         \* Profile: the form (avatar, firstName, lastName, email, phone)
    running,      \* handler calls in progress, each at one of its awaits
    done,         \* history: the handler call that completed last
    taps,         \* history: number of handler calls
    alerts,       \* history: titles of the alerts raised
    navigated,    \* history: the Success alert with navigate('Home') was raised
    profile       \* the Profile screen is mounted

schemaVars == <<schema, creates>>

storeVars == <<table, sqliteSeq, save, preTable, saveCalls, lastRead,
               schemaVars>>

activationVars == <<pc, menuItems, apiData, got, fetchCalls, getCalls>>

screenVars == <<loading, error, isInitialized, sections, selectedCategory,
                searchQuery, debouncedSearchQuery, timers, inflight,
                issued, lastIssued, shown, searched, settled, superseded,
                events>>

homeVars == <<activationVars, screenVars, failedOps>>

appVars == <<observed, isLoading, polls, lastPolled>>

handlerVars == <<entry, form, running, done, taps, alerts, navigated,
                 profile>>

sessionVars == <<kv, appVars, handlerVars>>

vars == <<storeVars, homeVars, sessionVars>>

---------------------------------------------------------------------------
(* Bounds *)

\* longest item sequence handed to saveMenuItems
MaxItems == 2

\* saveMenuItems calls per behaviour of the store harness
MaxSaves == 2

\* user inputs (category presses and search changes) per behaviour
MaxEvents == 3

\* items of a result handed to the grouping code
MaxResult == 3

\* createTable calls in a row
MaxCreates == 2

\* user inputs per behaviour where fairness is assumed
LiveEvents == 1

---------------------------------------------------------------------------
(* Text *)

\* ASCII codes of the characters used (memcmp order of the BINARY collation)
CharCode(c) ==
    CASE c = " " -> 32
      [] c = "%" -> 37
      [] c = "1" -> 49
      [] c = "2" -> 50
      [] c = "A" -> 65
      [] c = "B" -> 66
      [] c = "M" -> 77
      [] c = "O" -> 79
      [] c = "_" -> 95
      [] c = "a" -> 97
      [] c = "b" -> 98
      [] c = "d" -> 100
      [] c = "e" -> 101
      [] c = "f" -> 102
      [] c = "i" -> 105
      [] c = "l" -> 108
      [] c = "m" -> 109
      [] c = "n" -> 110
      [] c = "o" -> 111
      [] c = "r" -> 114
      [] c = "s" -> 115
      [] c = "t" -> 116
      [] c = "u" -> 117
      [] c = "v" -> 118
      [] c = "E-acute" -> 201
      [] c = "e-acute" -> 233

\* LOWER() of SQLite / the case folding of LIKE: ASCII letters only, so the
\* capital E with acute accent ("E-acute") stays as it is
LowerChar(c) ==
    CASE c = "A" -> "a"
      [] c = "B" -> "b"
      [] c = "M" -> "m"
      [] c = "O" -> "o"
      [] OTHER -> c

Lower(s) == [i \in 1..Len(s) |-> LowerChar(s[i])]

IsSpace(c) == c = " "

RECURSIVE TrimLeft(_)
TrimLeft(s) ==
    IF s # <<>> /\ IsSpace(Head(s)) THEN TrimLeft(Tail(s)) ELSE s

RECURSIVE TrimRight(_)
TrimRight(s) ==
    IF s # <<>> /\ IsSpace(s[Len(s)])
    THEN TrimRight(SubSeq(s, 1, Len(s) - 1))
    ELSE s

\* String.prototype.trim
Trim(s) == TrimRight(TrimLeft(s))

\* memcmp order on text: a < b
RECURSIVE TextLess(_, _)
TextLess(a, b) ==
    IF b = <<>> THEN FALSE
    ELSE IF a = <<>> THEN TRUE
    ELSE IF CharCode(Head(a)) # CharCode(Head(b))
         THEN CharCode(Head(a)) < CharCode(Head(b))
         ELSE TextLess(Tail(a), Tail(b))

\* SQLite's LIKE: % matches any run, _ any one character, letters fold case
RECURSIVE LikeMatch(_, _)
LikeMatch(p, s) ==
    IF p = <<>> THEN s = <<>>
    ELSE IF Head(p) = "%"
         THEN LikeMatch(Tail(p), s) \/ (s # <<>> /\ LikeMatch(p, Tail(s)))
         ELSE /\ s # <<>>
              /\ (Head(p) = "_" \/ LowerChar(Head(p)) = LowerChar(Head(s)))
              /\ LikeMatch(Tail(p), Tail(s))

---------------------------------------------------------------------------
(* Menu items *)

\* an item of the payload that carries no id (bound as NULL)
NoId == 0

All      == <<"a", "l", "l">>
Starters == <<"s", "t", "a", "r", "t", "e", "r", "s">>
Mains    == <<"m", "a", "i", "n", "s">>
Desserts == <<"d", "e", "s", "s", "e", "r", "t", "s">>

Item(id, name, description, category) ==
    [id |-> id, name |-> name, price |-> 5, description |-> description,
     image |-> <<"i">>, category |-> category]

Item1  == Item(1, <<"A", "b">>, <<"a">>, Starters)
Item2  == Item(2, <<"b">>, <<>>, Mains)
Item1b == Item(1, <<"b">>, <<"b">>, Desserts)
ItemN  == Item(NoId, <<"a">>, <<>>, Mains)

\* items of the sequences handed to saveMenuItems; a sequence may hold an
\* item, and so an id, twice
MenuUniverse == {Item1, Item2, ItemN}

RECURSIVE SeqsUpTo(_, _)
SeqsUpTo(S, n) ==
    IF n = 0 THEN {<<>>}
    ELSE LET shorter == SeqsUpTo(S, n - 1)
         IN shorter \cup {Append(s, x) : s \in {t \in shorter : Len(t) = n - 1}, x \in S}

ItemSeqs == SeqsUpTo(MenuUniverse, MaxItems)

\* table contents the store can start with
InitialTables == {{}, {Item1}, {Item1, Item2}}

MaxOf(S) == CHOOSE m \in S : \A x \in S : x <= m

MaxRowId(tbl) == IF tbl = {} THEN 0 ELSE MaxOf({r.id : r \in tbl})


---------------------------------------------------------------------------
(* The menu store: reads *)

\* lexicographic order on ORDER BY keys (tuples of text)
RECURSIVE KeysLess(_, _)
KeysLess(ka, kb) ==
    IF ka = <<>> \/ kb = <<>> THEN FALSE
    ELSE IF Head(ka) # Head(kb) THEN TextLess(Head(ka), Head(kb))
         ELSE KeysLess(Tail(ka), Tail(kb))

\* rows with equal keys come in rowid order, the order of the table scan
RowBefore(p, q) ==
    KeysLess(p.key, q.key) \/ (p.key = q.key /\ p.row.id < q.row.id)

RECURSIVE SortPairs(_)
SortPairs(P) ==
    IF P = {} THEN <<>>
    ELSE LET m == CHOOSE p \in P : \A q \in P \ {p} : RowBefore(p, q)
         IN <<m.row>> \o SortPairs(P \ {m})

\* the ORDER BY key of a row: none, name, or category then name
OrderKey(r, order) ==
    CASE order = "" -> <<>>
      [] order = "name" -> <<r.name>>
      [] order = "category, name" -> <<r.category, r.name>>

OrderBy(rows, order) ==
    SortPairs({[key |-> OrderKey(r, order), row |-> r] : r \in rows})

\* SELECT * FROM menuitems
GetMenuItems(tbl) == OrderBy(tbl, "")

\* category === 'all'
AllBranchAnyCase(category) == Lower(category) = All

AllBranch(category) == category = All

FilterByCategory(tbl, category) ==
    IF AllBranch(category)
    THEN OrderBy(tbl, "category, name")
    ELSE OrderBy({r \in tbl : Lower(r.category) = Lower(category)}, "name")

\* a query argument that is null or undefined
NullText == <<"null">>

\* !query || query.trim() === ''
IsBlankQuery(query) == query = NullText \/ Trim(query) = <<>>

\* a blank query answered with no rows
SearchBlankGivesNothing(tbl, query) ==
    IF IsBlankQuery(query) THEN <<>>
    ELSE LET searchTerm == <<"%">> \o Trim(query) \o <<"%">>
         IN OrderBy({r \in tbl :
                        \/ LikeMatch(Lower(searchTerm), Lower(r.name))
                        \/ LikeMatch(Lower(searchTerm), Lower(r.description))},
                    "category, name")

SearchMenuItems(tbl, query) ==
    IF IsBlankQuery(query)
    THEN OrderBy(tbl, "category, name")
    ELSE LET searchTerm == <<"%">> \o Trim(query) \o <<"%">>
         IN OrderBy({r \in tbl :
                        \/ LikeMatch(Lower(searchTerm), Lower(r.name))
                        \/ LikeMatch(Lower(searchTerm), Lower(r.description))},
                    "category, name")

\* a read call: which function, with which argument
ReadCall(kind, arg) == [kind |-> kind, arg |-> arg]

RunRead(call, tbl) ==
    CASE call.kind = "getMenuItems"     -> GetMenuItems(tbl)
      [] call.kind = "filterByCategory" -> FilterByCategory(tbl, call.arg)
      [] call.kind = "searchMenuItems"  -> SearchMenuItems(tbl, call.arg)

---------------------------------------------------------------------------
(* The menu store: saveMenuItems *)

\* the rowid an INSERT gives the row: the bound id, or for NULL the next
\* AUTOINCREMENT value
InsertAutoId(item, tbl, seq) ==
    (IF seq > MaxRowId(tbl) THEN seq ELSE MaxRowId(tbl)) + 1

\* every row gets a store-assigned id
InsertRowIdAssigned(item, tbl, seq) == InsertAutoId(item, tbl, seq)

InsertRowId(item, tbl, seq) ==
    IF item.id # NoId THEN item.id ELSE InsertAutoId(item, tbl, seq)

\* PRIMARY KEY: an INSERT of an id the table holds fails
InsertConflicts(item, tbl) ==
    item.id # NoId /\ \E r \in tbl : r.id = item.id

InsertRow(item, tbl, seq) == [item EXCEPT !.id = InsertRowId(item, tbl, seq)]

\* what the database holds after the transaction ends in ROLLBACK
KeepWrites(current, snapshot) == current

\* CREATE TABLE without IF NOT EXISTS: an existing table is an error
CreateTableNoGuard(exists, ioOk) == exists \/ ~ioOk

\* CREATE TABLE IF NOT EXISTS throws only when the database cannot be used
CreateTableThrows(exists, ioOk) == ~ioOk

\* createTable(): the statement creates the table when it is missing and
\* touches no row
CreateTable(ioOk) ==
    LET throws == CreateTableThrows(schema, ioOk)
    IN /\ schema' = (schema \/ ~throws)
       /\ creates' = Append(creates, [existed |-> schema,
                                      ioOk    |-> ioOk,
                                      ok      |-> ~throws,
                                      rows    |-> table])

Rollback(current, snapshot) == snapshot

Idle == [pc |-> "idle", items |-> <<>>, next |-> 1,
         undoTable |-> {}, undoSeq |-> 0]

SaveDone == save.pc \in {"idle", "resolved", "rejected"}

\* the catch of withTransactionAsync: ROLLBACK, then the call rejects
SaveReject ==
    /\ table' = Rollback(table, save.undoTable)
    /\ sqliteSeq' = Rollback(sqliteSeq, save.undoSeq)
    /\ save' = [save EXCEPT !.pc = "rejected", !.undoTable = {}, !.undoSeq = 0]

\* BEGIN
SaveBegin ==
    /\ save.pc = "begin"
    /\ \/ /\ save' = [save EXCEPT !.pc = "delete",
                                  !.undoTable = table, !.undoSeq = sqliteSeq]
          /\ UNCHANGED <<table, sqliteSeq>>
       \/ /\ save' = [save EXCEPT !.pc = "rejected"]
          /\ UNCHANGED <<table, sqliteSeq>>
    /\ UNCHANGED <<preTable, saveCalls, lastRead, schemaVars, sessionVars>>

\* DELETE FROM menuitems
SaveDelete ==
    /\ save.pc = "delete"
    /\ \/ /\ table' = {}
          /\ save' = [save EXCEPT
                        !.pc = IF Len(save.items) = 0 THEN "commit" ELSE "insert"]
          /\ UNCHANGED sqliteSeq
       \/ SaveReject
    /\ UNCHANGED <<preTable, saveCalls, lastRead, schemaVars, sessionVars>>

\* one INSERT of the for loop
SaveInsert ==
    /\ save.pc = "insert"
    /\ LET item == save.items[save.next]
           row  == InsertRow(item, table, sqliteSeq)
       IN \/ /\ ~InsertConflicts(item, table)
             /\ table' = table \cup {row}
             /\ sqliteSeq' = IF row.id > sqliteSeq THEN row.id ELSE sqliteSeq
             /\ save' = [save EXCEPT
                           !.next = @ + 1,
                           !.pc = IF save.next = Len(save.items)
                                  THEN "commit" ELSE "insert"]
          \/ SaveReject
    /\ UNCHANGED <<preTable, saveCalls, lastRead, schemaVars, sessionVars>>

\* COMMIT
SaveCommit ==
    /\ save.pc = "commit"
    /\ \/ /\ save' = [save EXCEPT !.pc = "resolved",
                                  !.undoTable = {}, !.undoSeq = 0]
          /\ UNCHANGED <<table, sqliteSeq>>
       \/ SaveReject
    /\ UNCHANGED <<preTable, saveCalls, lastRead, schemaVars, sessionVars>>

SaveStep ==
    /\ SaveBegin \/ SaveDelete \/ SaveInsert \/ SaveCommit
    /\ UNCHANGED homeVars

\* saveMenuItems(menuItems) is called
CallSave(items) ==
    /\ SaveDone
    /\ save' = [Idle EXCEPT !.pc = "begin", !.items = items]
    /\ preTable' = table
    /\ saveCalls' = saveCalls + 1

---------------------------------------------------------------------------
(* The Home screen: state and helpers *)

NoError == "null"

\* err.message || fallback
ErrorDropped(message, fallback) == NoError

ErrorText(message, fallback) == IF message = "" THEN fallback ELSE message

Categories == {All, Starters, Mains, Desserts}

\* texts the user can leave in the search bar
SearchTexts == {<<>>, <<" ">>, <<"a">>}

\* menu arrays the remote document can hold: none, two items, one id twice,
\* an item without id
RemoteMenus ==
    {<<>>, <<Item1, Item2>>, <<Item2, Item1, Item1b>>, <<ItemN, Item2>>}

NoData == [kind |-> "none", menu |-> <<>>]

\* what the GET and response.json() can give: a rejection of either, the
\* JSON value null, an object without a menu key, an object with a menu array
Responses ==
    {[kind |-> k, menu |-> <<>>] :
        k \in {"networkError", "parseError", "null", "noMenu"}}
    \cup {[kind |-> "menu", menu |-> m] : m \in RemoteMenus}

\* fetchMenuFromAPI rethrows what fetch or response.json() threw
FetchSwallows(resp) == FALSE

FetchRejects(resp) == resp.kind \in {"networkError", "parseError"}

\* apiData && apiData.menu (an array, also an empty one, is truthy)
NeverHasMenu(data) == FALSE

HasMenu(data) == data.kind = "menu"

\* !menuItems || menuItems.length === 0
AlwaysEmpty(items) == TRUE

IsEmptyResult(items) == Len(items) = 0

\* grouped[item.category].push(item), keys in the order they were created
RECURSIVE GroupInto(_, _)
GroupInto(R, acc) ==
    IF R = <<>> THEN acc
    ELSE LET item == Head(R)
             at   == {i \in 1..Len(acc) : acc[i].title = item.category}
         IN GroupInto(Tail(R),
                IF at = {}
                THEN Append(acc, [title |-> item.category, data |-> <<item>>])
                ELSE LET i == CHOOSE i \in at : TRUE
                     IN [acc EXCEPT ![i].data = Append(@, item)])

\* text that is a canonical array index: Object.keys lists such keys first,
\* in ascending numeric order
DigitChars == {"0", "1", "2", "3", "4", "5", "6", "7", "8", "9"}

IsIntegerKey(s) ==
    /\ s # <<>>
    /\ \A i \in 1..Len(s) : s[i] \in DigitChars
    /\ Len(s) > 1 => s[1] # "0"

RECURSIVE KeyValue(_)
KeyValue(s) ==
    IF s = <<>> THEN 0
    ELSE 10 * KeyValue(SubSeq(s, 1, Len(s) - 1)) + (CharCode(s[Len(s)]) - 48)

\* Object.keys(grouped): integer keys ascending, then the other keys in the
\* order they were created
ObjectKeys(acc) ==
    LET ints == {i \in 1..Len(acc) : IsIntegerKey(acc[i].title)}
        strs == (1..Len(acc)) \ ints
        Position(i) ==
            IF i \in ints
            THEN 1 + Cardinality({j \in ints :
                        KeyValue(acc[j].title) < KeyValue(acc[i].title)})
            ELSE 1 + Cardinality(ints) + Cardinality({j \in strs : j < i})
    IN [k \in 1..Len(acc) |-> acc[CHOOSE i \in 1..Len(acc) : Position(i) = k]]

Group(R) == ObjectKeys(GroupInto(R, <<>>))

\* names the empty object literal inherits from Object.prototype: for them
\* grouped[item.category] is truthy before any item was added and has no push
ValueOf == <<"v", "a", "l", "u", "e", "O", "f">>

ObjectPrototypeKeys == {ValueOf}

\* grouped[item.category].push(item) throws a TypeError
GroupThrows(items) ==
    \E i \in 1..Len(items) : items[i].category \in ObjectPrototypeKeys

GroupError == "grouped[item.category].push is not a function"

\* the sections setSections receives for a result
SectionsOf(items) == IF Len(items) > 0 THEN Group(items) ELSE <<>>

\* sections and error after the grouping code ran on a result: a TypeError
\* skips setSections and reaches the catch, which sets error
SectionsAfter(items, current) ==
    IF GroupThrows(items) THEN current ELSE SectionsOf(items)

\* a handled result that also calls setError(null)
ErrorResetOnSuccess(items, current) ==
    IF GroupThrows(items) THEN ErrorText(GroupError, "Error loading menu")
    ELSE NoError

ErrorAfter(items, current) ==
    IF GroupThrows(items) THEN ErrorText(GroupError, "Error loading menu")
    ELSE current

\* the loading view and the error view replace the search bar and the
\* category buttons
UIShown == pc = "done" /\ ~loading /\ error = NoError

\* the debounce effect: its cleanup clears the pending timer, then a new
\* timer is set for the current text
DebounceNoCleanup(pending, text) == pending \cup {text}

DebounceEffect(pending, text) == {text}

\* the guard of the query effect
QueryEffectAlways(init) == TRUE

QueryEffectRuns(init) == init

\* debouncedSearchQuery.trim() is truthy
SearchBranchUntrimmed(debounced) == debounced # <<>>

SearchBranch(debounced) == Trim(debounced) # <<>>

\* the store call the query effect makes for (isInitialized,
\* debouncedSearchQuery, selectedCategory)
EffectCalls(init, debounced, category) ==
    IF ~QueryEffectRuns(init) THEN {}
    ELSE IF SearchBranch(debounced)
         THEN {ReadCall("searchMenuItems", debounced)}
         ELSE {ReadCall("filterByCategory", category)}

\* the query effect runs when one of its dependencies changed in this render;
\* loadMenuByCategory sets loading before it awaits
RunQueryEffect(changed, init, debounced, category, loadingNow) ==
    LET calls == IF changed THEN EffectCalls(init, debounced, category) ELSE {}
    IN /\ inflight' = inflight \cup {[n |-> issued + 1, call |-> c] : c \in calls}
       /\ issued' = issued + Cardinality(calls)
       /\ lastIssued' = IF calls = {} THEN lastIssued ELSE CHOOSE c \in calls : TRUE
       /\ searched' = searched \cup
                        {c.arg : c \in {d \in calls : d.kind = "searchMenuItems"}}
       /\ loading' = IF \E c \in calls : c.kind = "filterByCategory"
                     THEN TRUE ELSE loadingNow

---------------------------------------------------------------------------
(* The Home screen: activation (initializeApp) *)

\* Home mounts: the mount effects run
Mount ==
    /\ pc = "unmounted"
    /\ pc' = "createTable"
    /\ timers' = DebounceEffect(timers, searchQuery)
    /\ RunQueryEffect(TRUE, isInitialized, debouncedSearchQuery,
                      selectedCategory, loading)
    /\ UNCHANGED <<storeVars, sessionVars, menuItems, apiData, got, fetchCalls, getCalls,
                   failedOps,
                   error,
                   isInitialized, sections, selectedCategory, searchQuery,
                   debouncedSearchQuery, shown, settled, superseded, events>>

\* the catch of initializeApp calls the failed step again
RetryStep(step) == step

\* the catch of initializeApp sets the error and the function returns
AfterCatch(step) == "done"

\* catch and finally of initializeApp, after operation op threw
ActivationFails(op, message) ==
    /\ pc' = AfterCatch(pc)
    /\ error' = ErrorText(message, "Error initializing app")
    /\ loading' = FALSE
    /\ failedOps' = failedOps \cup {op}
    /\ UNCHANGED <<isInitialized, sections, selectedCategory, searchQuery,
                   debouncedSearchQuery, timers, inflight, issued, lastIssued,
                   shown, searched, settled, superseded, events>>

\* loadMenuByCategory('all', items), setIsInitialized(true), finally; the
\* render that follows runs the query effect
ActivationEnds(items) ==
    /\ pc' = "done"
    /\ menuItems' = items
    /\ sections' = SectionsAfter(items, sections)
    /\ error' = ErrorAfter(items, error)
    /\ isInitialized' = TRUE
    /\ RunQueryEffect(TRUE, TRUE, debouncedSearchQuery, selectedCategory, FALSE)
    /\ UNCHANGED <<selectedCategory, searchQuery, debouncedSearchQuery,
                   timers, shown, settled, superseded, events, failedOps>>

\* await createTable()
ActCreateTable ==
    /\ pc = "createTable"
    /\ \E ioOk \in BOOLEAN :
          /\ CreateTable(ioOk)
          /\ IF CreateTableThrows(schema, ioOk)
             THEN ActivationFails("createTable", "Failed to create table")
             ELSE /\ pc' = "getMenuItems"
                  /\ UNCHANGED <<screenVars, failedOps>>
    /\ UNCHANGED <<table, sqliteSeq, save, preTable, saveCalls, lastRead,
                   sessionVars, menuItems, apiData, got, fetchCalls, getCalls>>

\* await getMenuItemsFromDB(), and the branch on its result
ActGetMenuItems ==
    /\ pc = "getMenuItems"
    /\ getCalls' = getCalls + 1
    /\ \/ LET result == GetMenuItems(table)
          IN /\ got' = [called |-> TRUE, rows |-> result]
             /\ IF IsEmptyResult(result)
                THEN /\ pc' = "fetch"
                     /\ menuItems' = result
                     /\ fetchCalls' = fetchCalls + 1
                     /\ UNCHANGED <<screenVars, failedOps>>
                ELSE /\ ActivationEnds(result)
                     /\ UNCHANGED fetchCalls
       \/ /\ ActivationFails("getMenuItems", "Failed to get menu items")
          /\ UNCHANGED <<menuItems, got, fetchCalls>>
    /\ UNCHANGED <<storeVars, sessionVars, apiData>>

\* await fetchMenuFromAPI(), and the branch on apiData
ActFetch ==
    /\ pc = "fetch"
    /\ \E resp \in Responses :
          /\ apiData' = resp
          /\ IF FetchRejects(resp)
             THEN /\ ActivationFails("fetch", "Fetch failed")
                  /\ UNCHANGED <<storeVars, sessionVars, menuItems>>
             ELSE IF HasMenu(resp)
             THEN /\ CallSave(resp.menu)
                  /\ pc' = "save"
                  /\ UNCHANGED <<table, sqliteSeq, lastRead, schemaVars, sessionVars,
                                 menuItems, screenVars, failedOps>>
             ELSE /\ ActivationEnds(menuItems)
                  /\ UNCHANGED <<storeVars, sessionVars>>
    /\ UNCHANGED <<got, fetchCalls, getCalls>>

\* await saveMenuItems(apiData.menu) settles
ActSaveReturns ==
    /\ pc = "save"
    /\ \/ /\ save.pc = "resolved"
          /\ ActivationEnds(apiData.menu)
       \/ /\ save.pc = "rejected"
          /\ ActivationFails("saveMenuItems", "Failed to save menu items")
          /\ UNCHANGED menuItems
    /\ UNCHANGED <<storeVars, sessionVars, apiData, got, fetchCalls, getCalls>>

---------------------------------------------------------------------------
(* The Home screen: inputs, the debounce timer and queries *)

\* handleSearchChange leaving the category as it is
CategoryKept(query, category) == category

\* if (query.trim()) setSelectedCategory('all')
CategoryAfterSearch(query, category) ==
    IF Trim(query) # <<>> THEN All ELSE category

HandleCategoryPress ==
    /\ UIShown
    /\ events < MaxEvents
    /\ \E category \in Categories :
          /\ selectedCategory' = category
          /\ searchQuery' = <<>>
          /\ timers' = IF searchQuery # <<>>
                       THEN DebounceEffect(timers, <<>>) ELSE timers
          /\ superseded' = IF searchQuery # <<>> /\ searchQuery \in timers
                           THEN superseded \cup {searchQuery} ELSE superseded
          /\ RunQueryEffect(category # selectedCategory, isInitialized,
                            debouncedSearchQuery, category, loading)
    /\ events' = events + 1
    /\ UNCHANGED <<storeVars, sessionVars, activationVars, failedOps, error, isInitialized,
                   sections, debouncedSearchQuery, shown, settled>>

HandleSearchChange ==
    /\ UIShown
    /\ events < MaxEvents
    /\ \E query \in SearchTexts :
          LET category == CategoryAfterSearch(query, selectedCategory)
          IN /\ searchQuery' = query
             /\ selectedCategory' = category
             /\ timers' = IF query # searchQuery
                          THEN DebounceEffect(timers, query) ELSE timers
             /\ superseded' = IF query # searchQuery /\ searchQuery \in timers
                              THEN superseded \cup {searchQuery} ELSE superseded
             /\ RunQueryEffect(category # selectedCategory, isInitialized,
                               debouncedSearchQuery, category, loading)
    /\ events' = events + 1
    /\ UNCHANGED <<storeVars, sessionVars, activationVars, failedOps, error, isInitialized,
                   sections, debouncedSearchQuery, shown, settled>>

\* a debounce timer fires: setDebouncedSearchQuery(text it was set for)
TimerFires ==
    /\ \E text \in timers :
          /\ timers' = timers \ {text}
          /\ debouncedSearchQuery' = text
          /\ settled' = IF text = searchQuery THEN settled \cup {text} ELSE settled
          /\ RunQueryEffect(text # debouncedSearchQuery, isInitialized, text,
                            selectedCategory, loading)
    /\ UNCHANGED <<storeVars, sessionVars, activationVars, failedOps, error, isInitialized,
                   sections, selectedCategory, searchQuery, shown, superseded,
                   events>>

\* a handler that returns without setLoading(false)
LoadingKept(current) == current

\* setLoading(false) at the end of the then, of the catch and in the finally
LoadingAfterSettle(current) == FALSE

\* a filterByCategory or searchMenuItems call settles and its continuation runs
QuerySettles ==
    /\ \E q \in inflight :
          /\ inflight' = inflight \ {q}
          /\ \/ \E result \in {RunRead(q.call, table)} :
                   /\ sections' = SectionsAfter(result, sections)
                   /\ error' = ErrorAfter(result, error)
                   /\ shown' = IF GroupThrows(result) THEN shown ELSE q.n
                   /\ UNCHANGED failedOps
             \/ /\ error' = IF q.call.kind = "searchMenuItems"
                            THEN ErrorText("Failed to search menu items",
                                           "Error searching menu")
                            ELSE ErrorText("Failed to filter by category",
                                           "Error loading menu")
                /\ failedOps' = failedOps \cup {q.call.kind}
                /\ UNCHANGED <<sections, shown>>
    /\ loading' = LoadingAfterSettle(loading)
    /\ UNCHANGED <<storeVars, sessionVars, activationVars, isInitialized, selectedCategory,
                   searchQuery, debouncedSearchQuery, timers, issued,
                   lastIssued, searched, settled, superseded, events>>

\* The session: AsyncStorage, the App observer, Onboarding and Profile

\* getItem of a key that has no value returns null
NoValue == <<"null">>

TrueText == <<"t", "r", "u", "e">>

Keys == {"isLoggedIn", "firstName", "lastName", "email", "phone", "avatar"}

ProfileKeys == {"firstName", "lastName", "email", "phone", "avatar"}

\* AsyncStorage with no key set
EmptyStorage == [k \in Keys |-> NoValue]

\* useState('') of the Onboarding form
EmptyEntry == [firstName |-> <<>>, email |-> <<>>]

\* useState(null) and useState('') of the Profile form
EmptyForm ==
    [avatar |-> NoValue, firstName |-> <<>>, lastName |-> <<>>,
     email |-> <<>>, phone |-> <<>>]

\* no read of the flag has completed
NoPoll == <<"none">>

NoHandler == [kind |-> "none", snap |-> EmptyForm, others |-> {},
              before |-> EmptyStorage]

\* the application before App mounts, on a first launch
AppInit ==
    /\ observed = FALSE
    /\ isLoading = TRUE
    /\ polls = <<>>
    /\ lastPolled = NoPoll
    /\ entry = EmptyEntry
    /\ form = EmptyForm
    /\ running = {}
    /\ done = NoHandler
    /\ taps = 0
    /\ alerts = {}
    /\ navigated = FALSE
    /\ profile = FALSE

SessionInit == kv = EmptyStorage /\ AppInit

\* Home before it is mounted
HomeUnmounted ==
    /\ pc = "unmounted"
    /\ menuItems = <<>>
    /\ apiData = NoData
    /\ got = [called |-> FALSE, rows |-> <<>>]
    /\ fetchCalls = 0
    /\ getCalls = 0
    /\ loading = TRUE
    /\ error = NoError
    /\ isInitialized = FALSE
    /\ sections = <<>>
    /\ selectedCategory = All
    /\ searchQuery = <<>>
    /\ debouncedSearchQuery = <<>>
    /\ timers = {}
    /\ inflight = {}
    /\ issued = 0
    /\ lastIssued = ReadCall("none", <<>>)
    /\ shown = 0
    /\ searched = {}
    /\ settled = {}
    /\ superseded = {}
    /\ events = 0
    /\ failedOps = {}

HomeInit == HomeUnmounted /\ SessionInit

---------------------------------------------------------------------------
(* The store with any callers of its exported functions *)

ReadCalls ==
    {ReadCall("getMenuItems", <<>>),
     ReadCall("filterByCategory", All),
     ReadCall("filterByCategory", Mains),
     ReadCall("searchMenuItems", <<"b">>)}

NoRead == [call |-> ReadCall("none", <<>>), rows |-> <<>>, pc |-> "idle",
           old |-> {}, items |-> <<>>]

\* a caller runs saveMenuItems(items); the history of reads starts afresh
StoreCallSave ==
    /\ saveCalls < MaxSaves
    /\ \E items \in ItemSeqs : CallSave(items)
    /\ lastRead' = NoRead
    /\ UNCHANGED <<table, sqliteSeq, schemaVars, sessionVars, homeVars>>

\* another caller's read is run by the connection and returns
StoreRead ==
    /\ \E call \in ReadCalls :
          lastRead' = [call  |-> call,
                       rows  |-> RunRead(call, table),
                       pc    |-> save.pc,
                       old   |-> preTable,
                       items |-> save.items]
    /\ UNCHANGED <<table, sqliteSeq, save, preTable, saveCalls, schemaVars, sessionVars,
                   homeVars>>

\* the database file as the application finds it: rows of an earlier run,
\* or none
StoreRows ==
    /\ table \in InitialTables
    /\ sqliteSeq = MaxRowId(table)
    /\ save = Idle
    /\ preTable = table
    /\ saveCalls = 0
    /\ lastRead = NoRead
    /\ creates = <<>>
    /\ HomeInit

StoreInit ==
    /\ StoreRows
    /\ schema = TRUE

StoreNext == StoreCallSave \/ SaveStep \/ StoreRead

SpecStore == StoreInit /\ [][StoreNext]_vars

---------------------------------------------------------------------------
(* The read functions of the store on any table *)

AllCapital   == <<"A", "l", "l">>
MainsCapital == <<"M", "a", "i", "n", "s">>

Query1 == Item(1, <<"A", "b">>, <<"a">>, Starters)
Query2 == Item(2, <<"b">>, <<>>, Mains)
Query3 == Item(3, <<"a">>, <<"B">>, MainsCapital)
Query4 == Item(4, <<"E-acute">>, <<>>, <<"e-acute">>)

QueryItems == {Query1, Query2, Query3, Query4}

\* tables the reads are run on
QueryTables == SUBSET QueryItems

\* search arguments: plain, capital, with a leading space, the LIKE
\* wildcards, a non-ASCII letter, blank ones and null
QueryTexts ==
    {<<"a">>, <<"B">>, <<" ", "a">>, <<"_">>, <<"%">>, <<"e-acute">>,
     <<>>, <<" ">>, NullText}

QueryCategories ==
    {All, AllCapital, Mains, MainsCapital, Desserts, <<"E-acute">>}

QueryCalls ==
    {ReadCall("searchMenuItems", q) : q \in QueryTexts}
    \cup {ReadCall("filterByCategory", c) : c \in QueryCategories}
    \cup {ReadCall("getMenuItems", <<>>)}

\* a caller runs one of the read functions
QueryRead ==
    /\ \E call \in QueryCalls :
          lastRead' = [call  |-> call,
                       rows  |-> RunRead(call, table),
                       pc    |-> save.pc,
                       old   |-> preTable,
                       items |-> save.items]
    /\ UNCHANGED <<table, sqliteSeq, save, preTable, saveCalls, schemaVars, sessionVars,
                   homeVars>>

Group1 == Item(1, <<"a">>, <<>>, Mains)
Group2 == Item(2, <<"b">>, <<>>, <<"2">>)
Group3 == Item(3, <<"a">>, <<>>, <<"1">>)
Group4 == Item(4, <<"b">>, <<>>, ValueOf)
Group5 == Item(5, <<"b">>, <<>>, Mains)

GroupItems == {Group1, Group2, Group3, Group4, Group5}

\* results in any order, as the remote payload can be
GroupInputs == SeqsUpTo(GroupItems, MaxResult)

\* loadMenuByCategory('all', menuItems): the result is given, no read is made
LoadExisting ==
    /\ sections' = SectionsAfter(menuItems, sections)
    /\ error' = ErrorAfter(menuItems, error)
    /\ loading' = FALSE
    /\ UNCHANGED <<storeVars, sessionVars, pc, menuItems, apiData, got, fetchCalls, getCalls,
                   failedOps, isInitialized,
                   selectedCategory, searchQuery, debouncedSearchQuery,
                   timers, inflight, issued, lastIssued, shown, searched,
                   settled, superseded, events>>

QueryInit ==
    /\ table \in QueryTables
    /\ sqliteSeq = MaxRowId(table)
    /\ save = Idle
    /\ preTable = table
    /\ saveCalls = 0
    /\ lastRead = NoRead
    /\ schema = TRUE
    /\ creates = <<>>
    /\ HomeInit

QueryNext == QueryRead

SpecQuery == QueryInit /\ [][QueryNext]_vars

\* createTable on any table, also when the table does not exist yet
StoreCreateTable ==
    /\ Len(creates) < MaxCreates
    /\ \E ioOk \in BOOLEAN : CreateTable(ioOk)
    /\ UNCHANGED <<table, sqliteSeq, save, preTable, saveCalls, lastRead,
                   sessionVars, homeVars>>

SchemaInit ==
    /\ table \in QueryTables
    /\ sqliteSeq = MaxRowId(table)
    /\ save = Idle
    /\ preTable = table
    /\ saveCalls = 0
    /\ lastRead = NoRead
    /\ schema \in BOOLEAN
    /\ ~schema => table = {}
    /\ creates = <<>>
    /\ HomeInit

SchemaNext == StoreCreateTable

SpecSchema == SchemaInit /\ [][SchemaNext]_vars

\* the grouping code on any result
GroupInit ==
    /\ table = {}
    /\ sqliteSeq = 0
    /\ save = Idle
    /\ preTable = {}
    /\ saveCalls = 0
    /\ lastRead = NoRead
    /\ pc = "unmounted"
    /\ menuItems \in GroupInputs
    /\ apiData = NoData
    /\ got = [called |-> FALSE, rows |-> <<>>]
    /\ fetchCalls = 0
    /\ getCalls = 0
    /\ loading = TRUE
    /\ error = NoError
    /\ isInitialized = FALSE
    /\ sections = <<>>
    /\ selectedCategory = All
    /\ searchQuery = <<>>
    /\ debouncedSearchQuery = <<>>
    /\ timers = {}
    /\ inflight = {}
    /\ issued = 0
    /\ lastIssued = ReadCall("none", <<>>)
    /\ shown = 0
    /\ searched = {}
    /\ settled = {}
    /\ superseded = {}
    /\ events = 0
    /\ failedOps = {}
    /\ schema = TRUE
    /\ creates = <<>>
    /\ SessionInit

GroupNext == LoadExisting

SpecGroup == GroupInit /\ [][GroupNext]_vars

---------------------------------------------------------------------------
(* The application: Home over the store *)

\* on a first launch the table does not exist yet
Init ==
    /\ StoreRows
    /\ schema \in BOOLEAN
    /\ ~schema => table = {}

Next ==
    \/ Mount
    \/ ActCreateTable
    \/ ActGetMenuItems
    \/ ActFetch
    \/ SaveStep
    \/ ActSaveReturns
    \/ HandleCategoryPress
    \/ HandleSearchChange
    \/ TimerFires
    \/ QuerySettles

Spec == Init /\ [][Next]_vars

\* the steps that follow from the code alone: the mount effect, each step of
\* initializeApp and of saveMenuItems, and the settling of each query
Awaited ==
    \/ Mount
    \/ ActCreateTable
    \/ ActGetMenuItems
    \/ ActFetch
    \/ SaveStep
    \/ ActSaveReturns
    \/ QuerySettles

\* every awaited call settles and every continuation runs
Fairness == WF_vars(Awaited)

\* Home before mount, with room for LiveEvents inputs
LiveInit ==
    /\ table \in InitialTables
    /\ sqliteSeq = MaxRowId(table)
    /\ save = Idle
    /\ preTable = table
    /\ saveCalls = 0
    /\ lastRead = NoRead
    /\ creates = <<>>
    /\ schema \in BOOLEAN
    /\ ~schema => table = {}
    /\ pc = "unmounted"
    /\ menuItems = <<>>
    /\ apiData = NoData
    /\ got = [called |-> FALSE, rows |-> <<>>]
    /\ fetchCalls = 0
    /\ getCalls = 0
    /\ loading = TRUE
    /\ error = NoError
    /\ isInitialized = FALSE
    /\ sections = <<>>
    /\ selectedCategory = All
    /\ searchQuery = <<>>
    /\ debouncedSearchQuery = <<>>
    /\ timers = {}
    /\ inflight = {}
    /\ issued = 0
    /\ lastIssued = ReadCall("none", <<>>)
    /\ shown = 0
    /\ searched = {}
    /\ settled = {}
    /\ superseded = {}
    /\ events = MaxEvents - LiveEvents
    /\ failedOps = {}
    /\ SessionInit

SpecLive == LiveInit /\ [][Next]_vars /\ Fairness

---------------------------------------------------------------------------
(* Properties of the store *)

Range(f) == {f[i] : i \in DOMAIN f}

\* row r is item `item` as stored: the same fields, and the id that was
\* supplied when one was supplied
StoredAs(r, item) ==
    /\ r.name = item.name
    /\ r.price = item.price
    /\ r.description = item.description
    /\ r.image = item.image
    /\ r.category = item.category
    /\ item.id # NoId => r.id = item.id

\* rows holds exactly the items of A, one row for each
IsGenerationOf(rows, A) ==
    \E f \in [1..Len(A) -> rows] :
        /\ \A i, j \in 1..Len(A) : f[i] = f[j] => i = j
        /\ Range(f) = rows
        /\ \A i \in 1..Len(A) : StoredAs(f[i], A[i])

\* C1: saveMenuItems is all-or-nothing. When the call has rejected (BEGIN,
\* DELETE, an INSERT or COMMIT failed) the table equals the table S it was
\* called on; when it has resolved the table holds exactly the rows of A.
SaveAllOrNothing ==
    /\ save.pc = "rejected" => table = preTable
    /\ save.pc = "resolved" => IsGenerationOf(table, save.items)

\* a non-empty table, and a call that failed on its second INSERT (an id
\* that occurs twice in A) after the DELETE and the first INSERT had run
SaveFailedMidInsert ==
    /\ save.pc = "rejected"
    /\ preTable # {}
    /\ Len(save.items) = 2
    /\ save.next = 2
    /\ save.items[1].id # NoId
    /\ save.items[1].id = save.items[2].id

\* the table every INSERT of A would build from an empty table
RECURSIVE InsertAll(_, _, _)
InsertAll(A, tbl, seq) ==
    IF A = <<>> THEN [ok |-> TRUE, table |-> tbl]
    ELSE IF InsertConflicts(Head(A), tbl) THEN [ok |-> FALSE, table |-> tbl]
    ELSE LET row == InsertRow(Head(A), tbl, seq)
         IN InsertAll(Tail(A), tbl \cup {row},
                      IF row.id > seq THEN row.id ELSE seq)

\* C2: a read issued while saveMenuItems is between its DELETE and its last
\* INSERT returns what the read gives on the complete old generation or on
\* the complete new generation.
ReadsSeeOneGeneration ==
    lastRead.pc = "insert" =>
        LET new == InsertAll(lastRead.items, {}, MaxRowId(lastRead.old))
        IN \/ lastRead.rows = RunRead(lastRead.call, lastRead.old)
           \/ new.ok /\ lastRead.rows = RunRead(lastRead.call, new.table)

\* the returned rows are the items of A, in some order
IsRoundTrip(rows, A) ==
    /\ Len(rows) = Len(A)
    /\ \E f \in [1..Len(A) -> 1..Len(rows)] :
          /\ \A i, j \in 1..Len(A) : f[i] = f[j] => i = j
          /\ \A i \in 1..Len(A) : StoredAs(rows[f[i]], A[i])

\* C3: round trip. A getMenuItems() that follows a successful
\* saveMenuItems(A) returns exactly the items of A, each with the fields and
\* the id supplied in A, whatever the table held before.
SaveThenGetRoundTrip ==
    (lastRead.call.kind = "getMenuItems" /\ lastRead.pc = "resolved")
        => IsRoundTrip(lastRead.rows, lastRead.items)

\* a table holding id 1 was replaced by two items, one of them with the
\* supplied id 2, and read back
RoundTripRead ==
    /\ lastRead.call.kind = "getMenuItems"
    /\ lastRead.pc = "resolved"
    /\ lastRead.old # {}
    /\ Len(lastRead.items) = 2
    /\ lastRead.items[1].id = 2

---------------------------------------------------------------------------
(* Properties of activation *)

ActivationRunning == pc \in {"createTable", "getMenuItems", "fetch", "save"}

\* the messages the catch of initializeApp can leave in error
ActivationErrors ==
    {"Failed to create table", "Failed to get menu items", "Fetch failed",
     "Failed to save menu items"}

StoreWasEmpty == got.called /\ got.rows = <<>>

\* C4: bootstrap once. When getMenuItems() returned rows during activation,
\* fetchMenuFromAPI and saveMenuItems are never called in that activation and
\* the stored rows stay as they were read.
BootstrapOnce ==
    (got.called /\ got.rows # <<>>) =>
        /\ fetchCalls = 0
        /\ saveCalls = 0
        /\ save = Idle
        /\ GetMenuItems(table) = got.rows

\* an activation over a table of two rows has ended Ready
ActivatedFromStore ==
    /\ pc = "done"
    /\ Len(got.rows) = 2
    /\ isInitialized

\* C5 as stated: on an empty store, a payload with a menu array M always
\* ends in saveMenuItems(M), Ready, and getMenuItems() returning M.
BootstrapAlwaysReady ==
    (pc = "done" /\ StoreWasEmpty /\ apiData.kind = "menu") =>
        /\ saveCalls = 1
        /\ save.items = apiData.menu
        /\ isInitialized
        /\ error \notin ActivationErrors
        /\ IsRoundTrip(GetMenuItems(table), apiData.menu)

\* C5, amended: on an empty store, a payload with a menu array M makes
\* activation call saveMenuItems(M) once; when that call resolves the
\* controller is Ready and getMenuItems() returns exactly the items of M, and
\* when it rejects the controller is Failed and the store is still empty.
BootstrapSavesMenu ==
    (pc = "done" /\ StoreWasEmpty /\ apiData.kind = "menu") =>
        /\ saveCalls = 1
        /\ save.items = apiData.menu
        /\ save.pc = "resolved" =>
              /\ isInitialized
              /\ error \notin ActivationErrors
              /\ IsRoundTrip(GetMenuItems(table), apiData.menu)
        /\ save.pc = "rejected" =>
              /\ ~isInitialized
              /\ error = "Failed to save menu items"
              /\ GetMenuItems(table) = <<>>
        /\ save.pc \in {"resolved", "rejected"}

\* an empty store was filled with a menu of two items
BootstrappedFromRemote ==
    /\ pc = "done"
    /\ StoreWasEmpty
    /\ apiData.kind = "menu"
    /\ Len(apiData.menu) = 2
    /\ save.pc = "resolved"
    /\ Cardinality(table) = 2

\* C6: on an empty store, when the fetch or its JSON parse fails, activation
\* ends Failed with the error set, saveMenuItems is never called and
\* getMenuItems() still returns the empty sequence.
FetchFailureLeavesStoreEmpty ==
    (pc = "done" /\ apiData.kind \in {"networkError", "parseError"}) =>
        /\ StoreWasEmpty
        /\ error = "Fetch failed"
        /\ ~isInitialized
        /\ ~loading
        /\ saveCalls = 0
        /\ GetMenuItems(table) = <<>>

\* the JSON parse of the response failed and activation has ended
FetchFailed ==
    /\ pc = "done"
    /\ fetchCalls = 1
    /\ apiData.kind = "parseError"

\* C7: on an empty store, a payload that is not an object with a menu key
\* makes activation fail: no write, and the controller Failed with an error.
MalformedPayloadFails ==
    (pc = "done" /\ apiData.kind \in {"null", "noMenu"}) =>
        /\ saveCalls = 0
        /\ ~isInitialized
        /\ error \in ActivationErrors

\* C8: while activation (createTable, getMenuItems, fetch, saveMenuItems) is
\* in progress no filterByCategory or searchMenuItems call has been issued and
\* no query result has been written to the sections.
NoQueryBeforeBootstrapEnds ==
    ActivationRunning =>
        /\ inflight = {}
        /\ issued = 0
        /\ shown = 0
        /\ sections = <<>>
        /\ ~UIShown

\* activation stands inside saveMenuItems, after the DELETE and one INSERT
BootstrapMidSave ==
    /\ pc = "save"
    /\ save.pc = "insert"
    /\ save.next = 2

---------------------------------------------------------------------------
(* Properties of queries *)

\* C9: once every issued query has returned, the sections shown are the
\* grouping of the result of the query issued last.
LateResultsDoNotWin ==
    (issued > 0 /\ inflight = {} /\ error = NoError) =>
        sections = SectionsOf(RunRead(lastIssued, table))

DispatchOf(text, category) ==
    IF Trim(text) # <<>>
    THEN ReadCall("searchMenuItems", text)
    ELSE ReadCall("filterByCategory", category)

\* C11: query dispatch. Every step that issues a query issues exactly one
\* store call, in the Ready state: searchMenuItems(debounced text) when the
\* text is non-blank after trimming, whatever the selected category, and
\* filterByCategory(selected category) otherwise.
QueryDispatch ==
    [][issued' # issued =>
          /\ issued' = issued + 1
          /\ isInitialized'
          /\ lastIssued' = DispatchOf(debouncedSearchQuery', selectedCategory')
          /\ inflight' = inflight \cup {[n |-> issued', call |-> lastIssued']}]_vars

\* a search was dispatched, and later a blank text sent the query to
\* filterByCategory
DispatchedBoth ==
    /\ searched # {}
    /\ debouncedSearchQuery = <<" ">>
    /\ lastIssued.kind = "filterByCategory"

---------------------------------------------------------------------------
(* Properties of the read functions *)

\* case folding of all letters, also the non-ASCII ones
FoldChar(c) == IF c = "E-acute" THEN "e-acute" ELSE LowerChar(c)

Fold(s) == [i \in 1..Len(s) |-> FoldChar(s[i])]

\* q occurs in s
Contains(q, s) ==
    \E i \in 1..(Len(s) - Len(q) + 1) : SubSeq(s, i, i + Len(q) - 1) = q

ContainsFolded(q, s) == Contains(Fold(q), Fold(s))

\* rows holds each row of the set once and nothing else
ListsExactly(rows, set) ==
    /\ Range(rows) = set
    /\ Len(rows) = Cardinality(set)

\* rows ascend in the ORDER BY key
Ascending(rows, order) ==
    \A i, j \in 1..Len(rows) :
        i < j => ~KeysLess(OrderKey(rows[j], order), OrderKey(rows[i], order))

SearchRead == lastRead.call.kind = "searchMenuItems"

FilterRead == lastRead.call.kind = "filterByCategory"

\* C12: searchMenuItems(q) with a non-blank q returns exactly the rows in
\* which q is a case-insensitive substring of name or of description, ordered
\* by (category, name).
SearchIsContainment ==
    (SearchRead /\ ~IsBlankQuery(lastRead.call.arg)) =>
        /\ ListsExactly(lastRead.rows,
              {r \in table :
                  \/ ContainsFolded(lastRead.call.arg, r.name)
                  \/ ContainsFolded(lastRead.call.arg, r.description)})
        /\ Ascending(lastRead.rows, "category, name")

\* C13: filterByCategory(c), c other than 'all', returns exactly the rows
\* whose category equals c case-insensitively, ordered by name; a c that
\* matches no row returns the empty sequence.
FilterFoldsAllLetters ==
    (FilterRead /\ lastRead.call.arg # All) =>
        /\ ListsExactly(lastRead.rows,
              {r \in table : Fold(r.category) = Fold(lastRead.call.arg)})
        /\ Ascending(lastRead.rows, "name")

\* What filterByCategory(c) does return: the rows whose category equals c up
\* to the case of the ASCII letters A-Z, ordered by name.
FilterFoldsAsciiLetters ==
    (FilterRead /\ lastRead.call.arg # All) =>
        /\ ListsExactly(lastRead.rows,
              {r \in table : Lower(r.category) = Lower(lastRead.call.arg)})
        /\ Ascending(lastRead.rows, "name")

\* C14: filterByCategory('all') returns every row once, ordered by
\* (category, name); a category that is 'all' in another case is filtered
\* like any other category.
FilterAll ==
    /\ (FilterRead /\ lastRead.call.arg = All) =>
          /\ ListsExactly(lastRead.rows, table)
          /\ Ascending(lastRead.rows, "category, name")
    /\ (FilterRead /\ lastRead.call.arg = AllCapital) =>
          ListsExactly(lastRead.rows, {r \in table : Lower(r.category) = All})

\* 'all' was asked for on the table of four rows
FilteredAll ==
    /\ FilterRead
    /\ lastRead.call.arg = All
    /\ Cardinality(table) = 4
    /\ Len(lastRead.rows) = 4

\* C15: a search with an empty, null or whitespace-only query returns the
\* same sequence as filterByCategory('all').
BlankSearchIsAll ==
    (SearchRead /\ (\/ lastRead.call.arg = NullText
                    \/ Trim(lastRead.call.arg) = <<>>)) =>
        lastRead.rows = FilterByCategory(table, All)

\* a whitespace-only search on a table of three or more rows
BlankSearched ==
    /\ SearchRead
    /\ lastRead.call.arg = <<" ">>
    /\ Len(lastRead.rows) >= 3

---------------------------------------------------------------------------
(* Properties of the grouping *)

\* positions of R at which a category appears for the first time
FirstSeen(R) ==
    {i \in 1..Len(R) : \A j \in 1..(i - 1) : R[j].category # R[i].category}

\* the items of R of one category, in their order in R
OfCategory(R, category) ==
    LET Same(item) == item.category = category
    IN SelectSeq(R, Same)

\* one section per category in the order of first appearance
FirstSeenSections(R) ==
    LET firsts == FirstSeen(R)
        Nth(k) == CHOOSE i \in firsts : Cardinality({j \in firsts : j < i}) = k - 1
    IN [k \in 1..Cardinality(firsts) |->
           [title |-> R[Nth(k)].category,
            data  |-> OfCategory(R, R[Nth(k)].category)]]

\* loadMenuByCategory was run on a given result
LoadedExisting == pc = "unmounted" /\ ~loading

\* C16: the sections produced for a result R are ordered by the first
\* appearance of each category in R, hold each item of R once in the section
\* titled with its category, keep the order of R inside a section, and an
\* empty R gives no section; no error is raised.
GroupingFirstSeen ==
    LoadedExisting =>
        /\ sections = FirstSeenSections(menuItems)
        /\ error = NoError

\* What holds of the sections when the grouping does not throw: each item of
\* R is once in the section titled with its category, in the order of R
GroupingPartitions ==
    (LoadedExisting /\ error = NoError) =>
        /\ \A k \in 1..Len(sections) :
              sections[k].data = OfCategory(menuItems, sections[k].title)
        /\ {sections[k].title : k \in 1..Len(sections)} =
              {menuItems[i].category : i \in 1..Len(menuItems)}
        /\ \A k, l \in 1..Len(sections) :
              sections[k].title = sections[l].title => k = l

---------------------------------------------------------------------------
(* Properties of createTable and of failures *)

\* C17: createTable is idempotent and non-destructive. On a database that can
\* be used, a first and a second createTable in a row both succeed, whether
\* or not the table existed, and no createTable call changes the stored rows.
CreateTableIdempotent ==
    /\ [](\A k \in 1..Len(creates) : creates[k].ioOk => creates[k].ok)
    /\ [][creates' # creates =>
             /\ table' = table
             /\ sqliteSeq' = sqliteSeq
             /\ creates'[Len(creates')].rows = table']_vars

\* createTable ran twice in a row on a table that holds rows
CreatedTwice ==
    /\ Len(creates) = 2
    /\ creates[1].ok /\ creates[2].ok
    /\ creates[2].existed
    /\ creates[1].rows = table
    /\ Cardinality(table) >= 2

\* C18: a createTable failure during activation is terminal. The controller
\* is Failed with the error surfaced, and no getMenuItems, fetch,
\* saveMenuItems, filterByCategory or searchMenuItems call is made in that
\* activation; the inputs are not offered.
SchemaFailureTerminal ==
    "createTable" \in failedOps =>
        /\ pc = "done"
        /\ error = "Failed to create table"
        /\ ~loading
        /\ ~isInitialized
        /\ ~got.called
        /\ fetchCalls = 0
        /\ saveCalls = 0
        /\ issued = 0
        /\ inflight = {}
        /\ events = 0
        /\ ~UIShown

\* createTable failed and the pending debounce timer has fired since
SchemaFailed ==
    /\ "createTable" \in failedOps
    /\ timers = {}

\* the fetch or the save of a bootstrap failed
BootstrapFailed == failedOps \cap {"fetch", "saveMenuItems"} # {}

\* the inputs are offered and the query effect answers them
Queryable == UIShown /\ QueryEffectRuns(isInitialized)

\* C19: after a failed bootstrap the system stays queryable and empty:
\* category and search queries are still answered, with zero sections.
FailedBootstrapQueryable ==
    BootstrapFailed => (Queryable /\ sections = <<>>)

\* C19, amended: after a failed bootstrap the controller is Failed: the
\* error is shown in place of the inputs, no category or search query is
\* issued, and the sections stay empty. The store stays empty, so its read
\* functions return the empty sequence.
FailedBootstrapTerminal ==
    BootstrapFailed =>
        /\ pc = "done"
        /\ error # NoError
        /\ ~Queryable
        /\ issued = 0
        /\ sections = <<>>
        /\ save.pc \in {"idle", "rejected"}
        /\ table = {}
        /\ FilterByCategory(table, All) = <<>>
        /\ \A q \in SearchTexts : SearchMenuItems(table, q) = <<>>

\* the save of a bootstrap failed after rows had been inserted
BootstrapSaveFailed ==
    /\ "saveMenuItems" \in failedOps
    /\ save.pc = "rejected"
    /\ save.next > 1

\* C20: no failure is swallowed. Once createTable, getMenuItems, the fetch,
\* saveMenuItems, filterByCategory or searchMenuItems has failed, the
\* controller holds a non-null error.
FailuresSurfaced == failedOps # {} => error # NoError

\* a search failed after the activation had succeeded
SearchFailed ==
    /\ "searchMenuItems" \in failedOps
    /\ isInitialized

---------------------------------------------------------------------------
(* Properties of Home: retries, inputs, error and loading *)

\* the dependencies of the query effect
QueryDeps == <<selectedCategory, debouncedSearchQuery, isInitialized>>

\* C21: no internal retry. In one activation createTable, getMenuItems, the
\* fetch and saveMenuItems are each called at most once, also when one of
\* them fails; the handling of a settled query issues no query, and a query
\* is issued only when the category, the debounced search text or
\* isInitialized changed.
NoInternalRetry ==
    /\ [](/\ Len(creates) <= 1
          /\ getCalls <= 1
          /\ fetchCalls <= 1
          /\ saveCalls <= 1)
    /\ [][/\ failedOps' # failedOps => issued' = issued
          /\ issued' # issued => QueryDeps' # QueryDeps]_vars

\* a query failed, and each operation of the activation was called once
FailedWithoutRetry ==
    /\ "filterByCategory" \in failedOps
    /\ Len(creates) = 1 /\ getCalls = 1 /\ fetchCalls = 1 /\ saveCalls = 1
    /\ inflight = {}

ErrorSticky ==
    [][error # NoError => (error' # NoError /\ ~UIShown')]_vars

\* a query failed and the query issued last was answered and shown
ErrorKeptAfterSuccess ==
    /\ error # NoError
    /\ isInitialized
    /\ issued >= 2
    /\ shown = issued
    /\ inflight = {}

\* C28: the loading indicator always ends. When every awaited call settles,
\* loading becomes false after it was true, whether the activation succeeds
\* or fails, and loading is false right after a query's result or failure
\* has been handled.
LoadingEnds ==
    /\ loading ~> ~loading
    /\ [][(inflight' # inflight /\ inflight' \subseteq inflight) => ~loading']_vars

\* a search was answered after the activation, and loading has ended
LoadingEndedAfterSearch ==
    /\ pc = "done"
    /\ searched # {}
    /\ inflight = {}
    /\ shown = issued
    /\ ~loading

---------------------------------------------------------------------------
(* AsyncStorage and the handler calls of Onboarding and Profile *)

\* handler calls per behaviour
MaxTaps == 3

\* a JavaScript string or null that is truthy
Truthy(v) == v # NoValue /\ v # <<>>

SetItem(store, key, value) == [store EXCEPT ![key] = value]

RemoveItem(store, key) == [store EXCEPT ![key] = NoValue]

\* a handler call: the values its closure holds, the await it is at, the keys
\* other calls wrote while it ran and the storage it started on
Call(kind, snap) ==
    [kind |-> kind, step |-> 1, snap |-> snap, others |-> {}, before |-> kv,
     live |-> TRUE]

\* the other calls in progress see that keys were written
NoteWrite(calls, keys) ==
    {[c EXCEPT !.others = @ \cup keys] : c \in calls}

Finished(c) ==
    [kind |-> c.kind, snap |-> c.snap, others |-> c.others,
     before |-> c.before]

\* call c passes one await that changes storage to store
Advance(c, store, keys, last) ==
    /\ kv' = store
    /\ running' = NoteWrite(running \ {c}, keys)
                    \cup (IF last THEN {} ELSE {[c EXCEPT !.step = @ + 1]})
    /\ done' = IF last THEN Finished(c) ELSE done

\* the awaited storage call rejects: the handler has no catch, the rest of
\* it does not run
Reject(c) ==
    /\ running' = running \ {c}
    /\ UNCHANGED <<kv, done>>

---------------------------------------------------------------------------
(* Onboarding *)

Letters ==
    {"A", "B", "C", "D", "E", "F", "G", "H", "I", "J", "K", "L", "M", "N",
     "O", "P", "Q", "R", "S", "T", "U", "V", "W", "X", "Y", "Z",
     "a", "b", "c", "d", "e", "f", "g", "h", "i", "j", "k", "l", "m", "n",
     "o", "p", "q", "r", "s", "t", "u", "v", "w", "x", "y", "z"}

\* [^<>()[\]\\.,;:\s@"]
AtomChar(c) ==
    c \notin {"<", ">", "(", ")", "[", "]", "\\", ".", ",", ";", ":", " ",
              "@", "\""}

\* [a-zA-Z\-0-9]
LabelChar(c) == c \in Letters \cup DigitChars \cup {"-"}

\* the pieces of s between its dots
RECURSIVE Segments(_)
Segments(s) ==
    IF \A i \in 1..Len(s) : s[i] # "." THEN <<s>>
    ELSE LET d == CHOOSE i \in 1..Len(s) :
                     s[i] = "." /\ \A j \in 1..(i - 1) : s[j] # "."
         IN <<SubSeq(s, 1, d - 1)>> \o Segments(SubSeq(s, d + 1, Len(s)))

AllChars(s, set) == \A i \in 1..Len(s) : s[i] \in set

\* /^[A-Za-z]+$/
FirstNameAny(s) == TRUE

IsFirstNameValid(s) == s # <<>> /\ AllChars(s, Letters)

\* atom(\.atom)*  or  any character and a quoted string
LocalPart(s) ==
    \/ \A k \in 1..Len(Segments(s)) :
          /\ Segments(s)[k] # <<>>
          /\ \A i \in 1..Len(Segments(s)[k]) : AtomChar(Segments(s)[k][i])
    \/ Len(s) >= 4 /\ s[2] = "\"" /\ s[Len(s)] = "\""

\* [d.d.d.d] with one to three digits each, or labels and a top-level name
\* of two or more letters
DomainPart(s) ==
    \/ /\ Len(s) >= 2 /\ s[1] = "[" /\ s[Len(s)] = "]"
       /\ LET parts == Segments(SubSeq(s, 2, Len(s) - 1))
          IN /\ Len(parts) = 4
             /\ \A k \in 1..4 : /\ Len(parts[k]) \in 1..3
                                /\ AllChars(parts[k], DigitChars)
    \/ LET parts == Segments(s)
       IN /\ Len(parts) >= 2
          /\ \A k \in 1..Len(parts) :
                /\ parts[k] # <<>>
                /\ \A i \in 1..Len(parts[k]) : LabelChar(parts[k][i])
          /\ Len(parts[Len(parts)]) >= 2
          /\ AllChars(parts[Len(parts)], Letters)

\* the email pattern of Onboarding
IsEmailValid(s) ==
    \E i \in 1..Len(s) :
        /\ s[i] = "@"
        /\ LocalPart(SubSeq(s, 1, i - 1))
        /\ DomainPart(SubSeq(s, i + 1, Len(s)))

NameAl == <<"A", "l">>

MailOk == <<"a", "@", "b", ".", "c", "o">>

\* what the user can leave in the Onboarding form: valid, a name with a
\* digit, a blank name, an email without top-level name, an empty email
EntryInputs ==
    {[firstName |-> NameAl, email |-> MailOk],
     [firstName |-> <<"A", "1">>, email |-> MailOk],
     [firstName |-> <<" ">>, email |-> MailOk],
     [firstName |-> NameAl, email |-> <<"a", "@", "b">>],
     [firstName |-> NameAl, email |-> <<>>]}

---------------------------------------------------------------------------
(* App: the observer of the login flag and the screen it selects *)

\* loadValue calls whose getItem has not settled
MaxPolls == 2

\* a getItem that rejected
Rejected == <<"rejected">>

OnboardingShown == ~isLoading /\ ~observed

HomeShown == ~isLoading /\ observed /\ ~profile

ProfileShown == ~isLoading /\ observed /\ profile

\* setState of an unmounted screen has no effect
Orphan(calls) == {[c EXCEPT !.live = FALSE] : c \in calls}

\* loadValue runs, at mount and on every tick of the 100 ms interval:
\* getItem('isLoggedIn') reads the store or rejects
LoadValue(ok) ==
    /\ Len(polls) < MaxPolls
    /\ polls' = Append(polls, IF ok THEN kv["isLoggedIn"] ELSE Rejected)
    /\ UNCHANGED <<storeVars, homeVars, kv, observed, isLoading, lastPolled,
                   handlerVars>>

PollRead == \E ok \in BOOLEAN : LoadValue(ok)

Without(seq, i) == SubSeq(seq, 1, i - 1) \o SubSeq(seq, i + 1, Len(seq))

ObservedSame(stored, current) == current

\* setValue(storedValue === 'true')
ObservedAfter(stored, current) ==
    IF stored = Rejected THEN current ELSE stored = TrueText

\* a getItem of loadValue settles: setValue unless it rejected, then
\* setIsLoading(false); the navigator mounts the screens of the new value
PollDeliver ==
    /\ \E i \in 1..Len(polls) :
          /\ polls' = Without(polls, i)
          /\ observed' = ObservedAfter(polls[i], observed)
          /\ lastPolled' = IF polls[i] = Rejected THEN lastPolled ELSE polls[i]
    /\ isLoading' = FALSE
    /\ IF observed' # observed
       THEN /\ entry' = EmptyEntry
            /\ form' = EmptyForm
            /\ profile' = FALSE
            /\ running' = Orphan(running)
       ELSE UNCHANGED <<entry, form, profile, running>>
    /\ UNCHANGED <<storeVars, homeVars, kv, done, taps, alerts, navigated>>

---------------------------------------------------------------------------
(* Onboarding: the handlers *)

\* the user edits the Onboarding form
EditEntry ==
    /\ OnboardingShown
    /\ \E e \in EntryInputs : entry' = e /\ entry' # entry
    /\ UNCHANGED <<storeVars, homeVars, kv, appVars, form, running, done,
                   taps, alerts, navigated, profile>>

\* the user presses Next: handleNext up to its first await
HandleNext ==
    /\ OnboardingShown
    /\ taps < MaxTaps
    /\ taps' = taps + 1
    /\ running' = IF IsFirstNameValid(entry.firstName) /\ IsEmailValid(entry.email)
                  THEN running \cup
                         {Call("next", [EmptyForm EXCEPT
                                           !.firstName = entry.firstName,
                                           !.email = entry.email])}
                  ELSE running
    /\ UNCHANGED <<storeVars, homeVars, kv, appVars, entry, form, done,
                   alerts, navigated, profile>>

\* the keys handleNext writes, in the order it writes them
NextOrder == <<"firstName", "email", "isLoggedIn">>

NextValue(c, key) == IF key = "isLoggedIn" THEN TrueText ELSE c.snap[key]

\* an await of handleNext settles
NextStep ==
    /\ \E c \in running :
          /\ c.kind = "next"
          /\ \/ Advance(c, SetItem(kv, NextOrder[c.step],
                                   NextValue(c, NextOrder[c.step])),
                        {NextOrder[c.step]}, c.step = Len(NextOrder))
             \/ Reject(c)
    /\ UNCHANGED <<storeVars, homeVars, appVars, entry, form, taps, alerts,
                   navigated, profile>>

---------------------------------------------------------------------------
(* Profile: the handlers *)

\* the order in which Profile reads, writes and removes its keys
ProfileOrder == <<"firstName", "lastName", "email", "phone", "avatar">>

\* the uri the image picker returns
Picture == <<"p">>

\* what the user can leave in the text fields of Profile: complete, a blank
\* first name, an empty email
FormTexts ==
    {[avatar |-> NoValue, firstName |-> NameAl, lastName |-> <<"Z">>,
      email |-> MailOk, phone |-> <<"1">>],
     [avatar |-> NoValue, firstName |-> <<" ">>, lastName |-> <<"Z">>,
      email |-> MailOk, phone |-> <<"1">>],
     [avatar |-> NoValue, firstName |-> NameAl, lastName |-> <<>>,
      email |-> <<>>, phone |-> <<>>]}

\* the user opens Profile from Home: the screen mounts with an empty form
\* and its effect calls loadProfileData
OpenProfile ==
    /\ HomeShown
    /\ taps < MaxTaps
    /\ taps' = taps + 1
    /\ profile' = TRUE
    /\ form' = EmptyForm
    /\ running' = running \cup {Call("load", EmptyForm)}
    /\ UNCHANGED <<storeVars, homeVars, kv, appVars, entry, done, alerts,
                   navigated>>

\* the user leaves Profile, by the back button or the OK of the alert
CloseProfile ==
    /\ ProfileShown
    /\ profile' = FALSE
    /\ form' = EmptyForm
    /\ running' = Orphan(running)
    /\ UNCHANGED <<storeVars, homeVars, kv, appVars, entry, done, taps,
                   alerts, navigated>>

\* if (storedX) setX(storedX), for each of the five
Loaded(read, current) ==
    [k \in DOMAIN current |-> IF Truthy(read[k]) THEN read[k] ELSE current[k]]

\* a getItem of loadProfileData settles; after the fifth the form is set
LoadStep ==
    /\ \E c \in running :
          /\ c.kind = "load"
          /\ \/ LET key  == ProfileOrder[c.step]
                    read == [c.snap EXCEPT ![key] = kv[key]]
                    last == c.step = Len(ProfileOrder)
                IN /\ running' = (running \ {c}) \cup
                         (IF last THEN {}
                          ELSE {[c EXCEPT !.step = @ + 1, !.snap = read]})
                   /\ done' = IF last THEN Finished([c EXCEPT !.snap = read])
                              ELSE done
                   /\ form' = IF last /\ c.live THEN Loaded(read, form)
                              ELSE form
                   /\ kv' = kv
             \/ Reject(c) /\ form' = form
    /\ UNCHANGED <<storeVars, homeVars, appVars, entry, taps, alerts,
                   navigated, profile>>

\* the user edits the text fields of Profile
EditForm ==
    /\ ProfileShown
    /\ \E f \in FormTexts :
          /\ form' = [f EXCEPT !.avatar = form.avatar]
          /\ form' # form
    /\ UNCHANGED <<storeVars, homeVars, kv, appVars, entry, running, done,
                   taps, alerts, navigated, profile>>

\* the user presses the avatar button: handleChangeAvatar up to its first
\* await
HandleChangeAvatar ==
    /\ ProfileShown
    /\ taps < MaxTaps
    /\ taps' = taps + 1
    /\ running' = running \cup {Call("avatar", form)}
    /\ UNCHANGED <<storeVars, homeVars, kv, appVars, entry, form, done,
                   alerts, navigated, profile>>

PermissionAlert == "Sorry, we need camera roll permissions to make this work!"

\* an await of handleChangeAvatar settles: the permission, the picker, the
\* setItem
AvatarStep ==
    /\ \E c \in running :
          /\ c.kind = "avatar"
          /\ \/ /\ c.step = 1
                /\ \E granted \in BOOLEAN :
                      /\ Advance(c, kv, {}, ~granted)
                      /\ alerts' = IF granted THEN alerts
                                   ELSE alerts \cup {PermissionAlert}
                /\ form' = form
             \/ /\ c.step = 2
                /\ \E picked \in BOOLEAN :
                      /\ kv' = kv
                      /\ running' = (running \ {c}) \cup
                            (IF picked
                             THEN {[c EXCEPT !.step = 3,
                                             !.snap.avatar = Picture]}
                             ELSE {})
                      /\ done' = IF picked THEN done ELSE Finished(c)
                      /\ form' = IF picked /\ c.live
                                 THEN [form EXCEPT !.avatar = Picture]
                                 ELSE form
                /\ alerts' = alerts
             \/ /\ c.step = 3
                /\ Advance(c, SetItem(kv, "avatar", c.snap.avatar),
                           {"avatar"}, TRUE)
                /\ UNCHANGED <<form, alerts>>
             \/ Reject(c) /\ UNCHANGED <<form, alerts>>
    /\ UNCHANGED <<storeVars, homeVars, appVars, entry, taps, navigated,
                   profile>>

\* setAvatar(null)
AvatarRemoved(current) == NoValue

\* the user presses Remove: handleRemoveAvatar
HandleRemoveAvatar ==
    /\ ProfileShown
    /\ taps < MaxTaps
    /\ taps' = taps + 1
    /\ form' = [form EXCEPT !.avatar = AvatarRemoved(form.avatar)]
    /\ done' = [kind |-> "remove", snap |-> form, others |-> {},
                before |-> kv]
    /\ UNCHANGED <<storeVars, homeVars, kv, appVars, entry, running, alerts,
                   navigated, profile>>

\* the user presses Log out: handleLogout up to its await
HandleLogout ==
    /\ ProfileShown
    /\ taps < MaxTaps
    /\ taps' = taps + 1
    /\ running' = running \cup {Call("logout", form)}
    /\ UNCHANGED <<storeVars, homeVars, kv, appVars, entry, form, done,
                   alerts, navigated, profile>>

ClearProfile(store) ==
    [k \in Keys |-> IF k \in ProfileKeys THEN NoValue ELSE store[k]]

\* AsyncStorage.clear()
Clear(store) == EmptyStorage

\* the clear of handleLogout settles
LogoutStep ==
    /\ \E c \in running :
          /\ c.kind = "logout"
          /\ \/ Advance(c, Clear(kv), Keys, TRUE)
             \/ Reject(c)
    /\ UNCHANGED <<storeVars, homeVars, appVars, entry, form, taps, alerts,
                   navigated, profile>>

IsEmpty(s) == s = <<>>

\* !s.trim()
IsBlank(s) == Trim(s) = <<>>

\* the user presses Save: handleSave up to its return or first await
HandleSave ==
    /\ ProfileShown
    /\ taps < MaxTaps
    /\ taps' = taps + 1
    /\ IF IsBlank(form.firstName) \/ IsBlank(form.email)
       THEN /\ alerts' = alerts \cup {"Missing Information"}
            /\ running' = running
       ELSE /\ alerts' = alerts
            /\ running' = running \cup {Call("save", form)}
    /\ UNCHANGED <<storeVars, homeVars, kv, appVars, entry, form, done,
                   navigated, profile>>

AvatarAlways(avatar) == TRUE

\* if (avatar)
AvatarWritten(avatar) == Truthy(avatar)

\* the last setItem of this handleSave call
SaveLast(c) == IF AvatarWritten(c.snap.avatar) THEN 5 ELSE 4

\* a setItem of handleSave settles; after the last the Success alert is
\* raised, whose OK navigates to Home
SaveProfileStep ==
    /\ \E c \in running :
          /\ c.kind = "save"
          /\ \/ /\ Advance(c, SetItem(kv, ProfileOrder[c.step],
                                      c.snap[ProfileOrder[c.step]]),
                           {ProfileOrder[c.step]}, c.step = SaveLast(c))
                /\ alerts' = IF c.step = SaveLast(c)
                             THEN alerts \cup {"Success"} ELSE alerts
                /\ navigated' = (navigated \/ c.step = SaveLast(c))
             \/ Reject(c) /\ UNCHANGED <<alerts, navigated>>
    /\ UNCHANGED <<storeVars, homeVars, appVars, entry, form, taps, profile>>

\* the user presses Discard: handleDiscard up to its first await
HandleDiscard ==
    /\ ProfileShown
    /\ taps < MaxTaps
    /\ taps' = taps + 1
    /\ running' = running \cup {Call("discard", form)}
    /\ UNCHANGED <<storeVars, homeVars, kv, appVars, entry, form, done,
                   alerts, navigated, profile>>

\* a removeItem of handleDiscard settles; after the fifth the form is reset
DiscardStep ==
    /\ \E c \in running :
          /\ c.kind = "discard"
          /\ \/ /\ Advance(c, RemoveItem(kv, ProfileOrder[c.step]),
                           {ProfileOrder[c.step]},
                           c.step = Len(ProfileOrder))
                /\ form' = IF c.step = Len(ProfileOrder) /\ c.live
                           THEN EmptyForm ELSE form
             \/ Reject(c) /\ form' = form
    /\ UNCHANGED <<storeVars, homeVars, appVars, entry, taps, alerts,
                   navigated, profile>>

---------------------------------------------------------------------------
(* The session: App, Onboarding and Profile over AsyncStorage *)

\* what an earlier session left in the store: after Onboarding only, and
\* with an avatar picked on Profile
Onboarded ==
    [isLoggedIn |-> TrueText, firstName |-> NameAl, lastName |-> NoValue,
     email |-> MailOk, phone |-> NoValue, avatar |-> NoValue]

StoredProfile == [Onboarded EXCEPT !.avatar = Picture]

\* the menu store and Home before App mounts
NotLaunched ==
    /\ table = {}
    /\ sqliteSeq = 0
    /\ save = Idle
    /\ preTable = {}
    /\ saveCalls = 0
    /\ lastRead = NoRead
    /\ schema = FALSE
    /\ creates = <<>>
    /\ HomeUnmounted

\* a first launch, or a launch after an earlier session
SessionLaunch ==
    /\ NotLaunched
    /\ kv \in {EmptyStorage, StoredProfile}
    /\ AppInit

\* a launch after an earlier session, once the first read of the flag has
\* been delivered
ProfileLaunch ==
    /\ NotLaunched
    /\ kv = StoredProfile
    /\ observed = TRUE
    /\ isLoading = FALSE
    /\ polls = <<>>
    /\ lastPolled = TrueText
    /\ entry = EmptyEntry
    /\ form = EmptyForm
    /\ running = {}
    /\ done = NoHandler
    /\ taps = 0
    /\ alerts = {}
    /\ navigated = FALSE
    /\ profile = FALSE

Polling == PollRead \/ PollDeliver

OnboardingNext == EditEntry \/ HandleNext \/ NextStep

\* the user onboards, opens Profile and logs out, while App polls the flag
SessionNext ==
    \/ Polling
    \/ OnboardingNext
    \/ OpenProfile
    \/ CloseProfile
    \/ LoadStep
    \/ HandleLogout
    \/ LogoutStep

\* the interval keeps firing, getItem does not reject forever, and every
\* getItem settles
PollFairness == SF_vars(LoadValue(TRUE)) /\ WF_vars(PollDeliver)

SpecSession == SessionLaunch /\ [][SessionNext]_vars /\ PollFairness

\* the user on the Home stack between two changes of the observed flag
ProfileNext ==
    \/ OpenProfile
    \/ CloseProfile
    \/ LoadStep
    \/ EditForm
    \/ HandleChangeAvatar
    \/ AvatarStep
    \/ HandleRemoveAvatar
    \/ HandleLogout
    \/ LogoutStep
    \/ HandleSave
    \/ SaveProfileStep
    \/ HandleDiscard
    \/ DiscardStep

SpecProfile == ProfileLaunch /\ [][ProfileNext]_vars

---------------------------------------------------------------------------
(* Properties of the session *)

\* C22 as stated: when handleLogout completes, and when handleDiscard
\* completes, none of the six keys has a value in the store.
SessionErased ==
    [][(done' # done /\ done'.kind \in {"logout", "discard"})
          => kv' = EmptyStorage]_vars

\* C22: when handleLogout completes none of the six keys has a value; when
\* handleDiscard completes each of the five profile keys has no value unless
\* another handler call wrote it meanwhile, and isLoggedIn is as it was when
\* the call began unless another handler call wrote it.
ErasedAtLogoutOnly ==
    [][done' # done =>
          /\ done'.kind = "logout" => kv' = EmptyStorage
          /\ done'.kind = "discard" =>
                /\ \A k \in ProfileKeys \ done'.others : kv'[k] = NoValue
                /\ "isLoggedIn" \notin done'.others =>
                      kv'["isLoggedIn"] = done'.before["isLoggedIn"]]_vars

\* a discard has completed and the user is still logged in
DiscardKeptLogin ==
    /\ done.kind = "discard"
    /\ done.others = {}
    /\ kv = [EmptyStorage EXCEPT !["isLoggedIn"] = TrueText]

\* C25: a handleSave on a form whose first name or email is blank after
\* trimming raises the 'Missing Information' alert, changes no key, starts
\* no write and does not navigate; a handleSave that completes has stored
\* firstName, lastName, email and phone with the values the form had at the
\* press, for each of them no other handler call wrote meanwhile.
SaveValidated ==
    /\ [][(HandleSave /\ (\/ Trim(form.firstName) = <<>>
                          \/ Trim(form.email) = <<>>))
            => /\ "Missing Information" \in alerts'
               /\ kv' = kv
               /\ running' = running
               /\ navigated' = navigated]_vars
    /\ [][(done' # done /\ done'.kind = "save")
            => /\ \A k \in {"firstName", "lastName", "email", "phone"}
                            \ done'.others : kv'[k] = done'.snap[k]
               /\ Trim(done'.snap.firstName) # <<>>
               /\ Trim(done'.snap.email) # <<>>]_vars

\* a save on a blank first name was refused, and a later save of the
\* completed form went through
SavedAfterRefusal ==
    /\ "Missing Information" \in alerts
    /\ done.kind = "save"
    /\ done.others = {}
    /\ kv["lastName"] = <<"Z">>
    /\ kv["phone"] = <<"1">>
    /\ navigated

OnboardingGate ==
    /\ [][HandleNext =>
            \/ entry = [firstName |-> NameAl, email |-> MailOk]
            \/ running' = running]_vars
    /\ [](\A c \in running : c.kind = "next" =>
            /\ c.step >= 2 /\ "firstName" \notin c.others
                  => kv["firstName"] = c.snap.firstName
            /\ c.step >= 3 /\ "email" \notin c.others
                  => kv["email"] = c.snap.email)
    /\ [][(kv'["isLoggedIn"] = TrueText /\ kv["isLoggedIn"] # TrueText)
            => \E c \in running :
                  /\ c.kind = "next"
                  /\ Truthy(c.snap.firstName) /\ Truthy(c.snap.email)
                  /\ \A k \in {"firstName", "email"} \ c.others :
                        kv'[k] = c.snap[k]]_vars
    /\ []((/\ kv["isLoggedIn"] = TrueText
           /\ done.kind \in {"none", "next"}
           /\ done.others = {})
            => (Truthy(kv["firstName"]) /\ Truthy(kv["email"])))

\* onboarding has completed on an empty store
OnboardingDone ==
    /\ done.kind = "next"
    /\ done.before = EmptyStorage
    /\ done.others = {}
    /\ kv = [EmptyStorage EXCEPT !["isLoggedIn"] = TrueText,
                                 !["firstName"] = NameAl,
                                 !["email"] = MailOk]

\* C23: the observed isLoggedIn is true exactly when the last completed
\* read of the flag returned 'true'; once the stored flag stays 'true' the
\* Home stack is eventually shown for good, and once it stays absent
\* Onboarding is eventually shown for good, by the poll alone.
ObserverFollowsFlag ==
    /\ [](observed = (lastPolled = TrueText))
    /\ <>[](kv["isLoggedIn"] = TrueText) => <>[](~isLoading /\ observed)
    /\ <>[](kv["isLoggedIn"] = NoValue) => <>[]OnboardingShown

\* after onboarding and a logout the observer is back at Onboarding
BackAtOnboarding ==
    /\ done.kind = "logout"
    /\ done.before["isLoggedIn"] = TrueText
    /\ done.before["firstName"] = NameAl
    /\ kv = EmptyStorage
    /\ lastPolled = NoValue
    /\ OnboardingShown

=============================================================================
